---- MODULE Spec2Model ----
(***************************************************************************)
(* everybit: a packed bit array (src/src/bitarray.rs) with per-bit get/set *)
(* and in-place rotation of a sub-range.                                   *)
(*                                                                         *)
(* A BitArray is the pair (bit_sz, data): data is a sequence of bytes      *)
(* (1-indexed here, 0-indexed in the source), bit i lives in byte i / 8 at *)
(* mask 1 << (i % 8).  A Rust panic (a failed assert_eq!, an arithmetic    *)
(* overflow in a build with overflow checks, a panic!) is modelled by the  *)
(* err field of the value an operation returns.                            *)
(***************************************************************************)
EXTENDS Integers, Sequences, FiniteSets, TLC

(***************************************************************************)
(* Bounds of the model.                                                    *)
(***************************************************************************)
\* usize and isize are WordBits wide (64 in the source's target; the
\* arithmetic below is the two's-complement arithmetic of that width).
WordBits == 6
\* new(n) is called with n in 0 .. MaxBits.
MaxBits == 9
\* from_str is called with strings of at most MaxStrLen characters.
MaxStrLen == 3
\* rotate is called with right amounts in -MaxRot .. MaxRot, and with
\* isize::MIN.
MaxRot == 4
\* rotate_left is called with left amounts in 0 .. MaxLeft.
MaxLeft == 8
\* the text round trip is run on strings of at most MaxTextLen characters.
MaxTextLen == 9

\* bits per storage byte (the 8 of bit_index / 8 and bit_index % 8)
ByteBits == 8

UsizeMax == 2^WordBits - 1
IsizeMax == 2^(WordBits - 1) - 1
IsizeMin == -(2^(WordBits - 1))
Usize == 0 .. UsizeMax
Isize == IsizeMin .. IsizeMax
ByteMax == 2^ByteBits - 1

(***************************************************************************)
(* u8 bit operations, computed bit by bit from the low end.                *)
(***************************************************************************)
RECURSIVE And8(_, _)
\* a & b
And8(a, b) ==
    IF a = 0 \/ b = 0 THEN 0
    ELSE (a % 2) * (b % 2) + 2 * And8(a \div 2, b \div 2)

RECURSIVE Or8(_, _)
\* a | b
Or8(a, b) ==
    IF a = 0 THEN b
    ELSE IF b = 0 THEN a
    ELSE (IF a % 2 = 1 \/ b % 2 = 1 THEN 1 ELSE 0) + 2 * Or8(a \div 2, b \div 2)

\* !a on a u8: every one of its ByteBits bits flipped
Not8(a) == ByteMax - a

(***************************************************************************)
(* Machine arithmetic.  An operation that overflows panics in a build with *)
(* overflow checks (checks = TRUE, the debug profile) and wraps otherwise  *)
(* (the release profile).                                                  *)
(***************************************************************************)
WrapIsize(x) == ((x - IsizeMin) % (2^WordBits)) + IsizeMin
WrapUsize(x) == x % (2^WordBits)

\* Rust's % on signed integers: the remainder of the truncated division,
\* with the sign of the dividend.
Rem(a, b) ==
    LET absa == IF a < 0 THEN -a ELSE a
        absb == IF b < 0 THEN -b ELSE b
    IN  IF a < 0 THEN -(absa % absb) ELSE absa % absb

Ok(v) == [err |-> "none", val |-> v]
Panic(e, v) == [err |-> e, val |-> v]

(***************************************************************************)
(* BitArray                                                                *)
(***************************************************************************)
\* vec![0; n]
Zeros(n) == [k \in 1 .. n |-> 0]

new(n) ==
    LET num_els == n \div ByteBits
    IN  [bit_sz |-> n, data |-> Zeros(num_els + 1)]

from_u8(n) == [bit_sz |-> ByteBits, data |-> <<n>>]

bitmask(bit_index) == 2^(bit_index % ByteBits)

\* get with the bound of its assertion off by one
get_upto(data, bit_sz, bit_index) ==
    IF ~(bit_index <= bit_sz) THEN Panic("assert", FALSE)
    ELSE LET byte_idx == bit_index \div ByteBits
         IN  IF byte_idx + 1 > Len(data) THEN Panic("index", FALSE)
             ELSE Ok(And8(data[byte_idx + 1], bitmask(bit_index)) # 0)

\* get: the value returned, or the panic of the failed assertion
get(data, bit_sz, bit_index) ==
    IF ~(bit_index < bit_sz) THEN Panic("assert", FALSE)
    ELSE LET byte_idx == bit_index \div ByteBits
         IN  IF byte_idx + 1 > Len(data) THEN Panic("index", FALSE)
             ELSE Ok(And8(data[byte_idx + 1], bitmask(bit_index)) # 0)

\* set clearing with the mask itself instead of its complement
set_unnegated(data, bit_sz, bit_index, val) ==
    IF ~(bit_index < bit_sz) THEN Panic("assert", data)
    ELSE LET byte_idx == bit_index \div ByteBits
             mask == bitmask(bit_index)
         IN  IF byte_idx + 1 > Len(data) THEN Panic("index", data)
             ELSE IF val
                  THEN Ok([data EXCEPT ![byte_idx + 1] = Or8(@, mask)])
                  ELSE Ok([data EXCEPT ![byte_idx + 1] = And8(@, mask)])

\* set: the data after the call, or the panic of the failed assertion
\* (with the data unchanged)
set(data, bit_sz, bit_index, val) ==
    IF ~(bit_index < bit_sz) THEN Panic("assert", data)
    ELSE LET byte_idx == bit_index \div ByteBits
             mask == bitmask(bit_index)
         IN  IF byte_idx + 1 > Len(data) THEN Panic("index", data)
             ELSE IF val
                  THEN Ok([data EXCEPT ![byte_idx + 1] = Or8(@, mask)])
                  ELSE Ok([data EXCEPT ![byte_idx + 1] = And8(@, Not8(mask))])

\* the char of from_str's match, as the bit it stands for
CharBit(b) ==
    IF b = "0" THEN Ok(FALSE)
    ELSE IF b = "1" THEN Ok(TRUE)
    ELSE Panic("bad input", FALSE)

RECURSIVE from_str_loop(_, _, _, _)
\* the loop of from_str: bits.chars().rev().enumerate() gives, at step i,
\* the character i places from the end
from_str_loop(bits, arr, bsz, i) ==
    IF i >= Len(bits) THEN Ok(arr)
    ELSE LET b == CharBit(bits[Len(bits) - i])
         IN  IF b.err # "none" THEN Panic(b.err, arr)
             ELSE LET s == set(arr, bsz, i, b.val)
                  IN  IF s.err # "none" THEN s
                      ELSE from_str_loop(bits, s.val, bsz, i + 1)

\* from_str: the array built, or the panic met while building it
from_str(bits) ==
    LET arr == new(Len(bits))
        r == from_str_loop(bits, arr.data, arr.bit_sz, 0)
    IN  [err |-> r.err, val |-> [bit_sz |-> arr.bit_sz, data |-> r.val]]

RECURSIVE show_loop_push(_, _, _, _)
\* show appending each next bit instead of putting it in front
show_loop_push(d, bsz, i, s) ==
    IF i >= bsz THEN Ok(s)
    ELSE LET g == get(d, bsz, i)
         IN  IF g.err # "none" THEN Panic(g.err, s)
             ELSE show_loop_push(d, bsz, i + 1, s \o <<IF g.val THEN "1" ELSE "0">>)

RECURSIVE show_loop(_, _, _, _)
\* the loop of show: s.insert(0, c) puts each next bit in front
show_loop(d, bsz, i, s) ==
    IF i >= bsz THEN Ok(s)
    ELSE LET g == get(d, bsz, i)
         IN  IF g.err # "none" THEN Panic(g.err, s)
             ELSE show_loop(d, bsz, i + 1, <<IF g.val THEN "1" ELSE "0">> \o s)

show(d, bsz) == show_loop(d, bsz, 0, <<>>)

RECURSIVE rotate_left_one_loop_incl(_, _, _, _, _)
\* the loop of rotate_left_one running one position past the range
rotate_left_one_loop_incl(d, bsz, i, end, first_bit) ==
    IF i + 1 <= end
    THEN LET g == get(d, bsz, i + 1)
         IN  IF g.err # "none" THEN Panic(g.err, d)
             ELSE LET s == set(d, bsz, i, g.val)
                  IN  IF s.err # "none" THEN s
                      ELSE rotate_left_one_loop_incl(s.val, bsz, i + 1, end, first_bit)
    ELSE set(d, bsz, i, first_bit)

RECURSIVE rotate_left_one_loop(_, _, _, _, _)
\* the while loop of rotate_left_one and the set that follows it
rotate_left_one_loop(d, bsz, i, end, first_bit) ==
    IF i + 1 < end
    THEN LET g == get(d, bsz, i + 1)
         IN  IF g.err # "none" THEN Panic(g.err, d)
             ELSE LET s == set(d, bsz, i, g.val)
                  IN  IF s.err # "none" THEN s
                      ELSE rotate_left_one_loop(s.val, bsz, i + 1, end, first_bit)
    ELSE set(d, bsz, i, first_bit)

\* rotate_left_one reading the wrapping bit after the shift has overwritten it
rotate_left_one_late(d, bsz, bit_offset, bit_length) ==
    LET first == get(d, bsz, bit_offset)
        shifted == rotate_left_one_loop(d, bsz, bit_offset, bit_offset + bit_length, first.val)
        i == IF bit_length = 0 THEN bit_offset ELSE bit_offset + bit_length - 1
    IN  IF first.err # "none" THEN Panic(first.err, d)
        ELSE IF shifted.err # "none" THEN shifted
        ELSE set(shifted.val, bsz, i, get(shifted.val, bsz, bit_offset).val)

\* rotate_left_one: the data after the call; after a panic, the data as the
\* panic left it
rotate_left_one(d, bsz, bit_offset, bit_length) ==
    LET first == get(d, bsz, bit_offset)
    IN  IF first.err # "none" THEN Panic(first.err, d)
        ELSE rotate_left_one_loop(d, bsz, bit_offset, bit_offset + bit_length, first.val)

RECURSIVE rotate_left(_, _, _, _, _)
\* rotate_left: bit_left_amount calls of rotate_left_one
rotate_left(d, bsz, bit_offset, bit_length, bit_left_amount) ==
    IF bit_left_amount = 0 THEN Ok(d)
    ELSE LET one == rotate_left_one(d, bsz, bit_offset, bit_length)
         IN  IF one.err # "none" THEN one
             ELSE rotate_left(one.val, bsz, bit_offset, bit_length, bit_left_amount - 1)

\* modulo(n, m), n an isize and m a usize
modulo(n, m, checks) ==
    LET signed_m == WrapIsize(m)
    IN  IF ~(signed_m > 0) THEN Panic("assert", 0)
        ELSE LET sum == Rem(n, signed_m) + signed_m
             IN  IF sum > IsizeMax /\ checks THEN Panic("overflow", 0)
                 ELSE LET result == Rem(WrapIsize(sum), signed_m)
                      IN  IF ~(result >= 0) THEN Panic("assert", 0)
                          ELSE Ok(WrapUsize(result))

\* rotate passing the right amount on without negating it
rotate_unnegated(d, bsz, bit_offset, bit_length, bit_right_amount, checks) ==
    LET twice == bit_offset + bit_offset
    IN  IF twice > UsizeMax /\ checks THEN Panic("overflow", d)
        ELSE IF ~(WrapUsize(twice) <= bsz) THEN Panic("assert", d)
        ELSE IF bit_length = 0 THEN Ok(d)
        ELSE LET k == modulo(bit_right_amount, bit_length, checks)
             IN  IF k.err # "none" THEN Panic(k.err, d)
                 ELSE rotate_left(d, bsz, bit_offset, bit_length, k.val)

\* rotate: the data after the call; after a panic, the data as the panic
\* left it
rotate(d, bsz, bit_offset, bit_length, bit_right_amount, checks) ==
    LET twice == bit_offset + bit_offset
    IN  IF twice > UsizeMax /\ checks THEN Panic("overflow", d)
        ELSE IF ~(WrapUsize(twice) <= bsz) THEN Panic("assert", d)
        ELSE IF bit_length = 0 THEN Ok(d)
        ELSE IF bit_right_amount = IsizeMin /\ checks THEN Panic("overflow", d)
        ELSE LET k == modulo(WrapIsize(-bit_right_amount), bit_length, checks)
             IN  IF k.err # "none" THEN Panic(k.err, d)
                 ELSE rotate_left(d, bsz, bit_offset, bit_length, k.val)

\* equality as a comparison of the stored bytes
eq_bytes(d, bsz, other_d, other_bsz) ==
    Ok(bsz = other_bsz /\ d = other_d)

RECURSIVE eq_loop(_, _, _, _, _)
\* the loop of eq: for i in 0 .. self.get_bit_sz()
eq_loop(d, bsz, other_d, other_bsz, i) ==
    IF i >= bsz THEN Ok(TRUE)
    ELSE LET mine == get(d, bsz, i)
             theirs == get(other_d, other_bsz, i)
         IN  IF mine.err # "none" THEN Panic(mine.err, FALSE)
             ELSE IF theirs.err # "none" THEN Panic(theirs.err, FALSE)
             ELSE IF mine.val # theirs.val THEN Ok(FALSE)
             ELSE eq_loop(d, bsz, other_d, other_bsz, i + 1)

\* PartialEq::eq of self = (d, bsz) and other = (other_d, other_bsz)
eq(d, bsz, other_d, other_bsz) ==
    IF bsz # other_bsz THEN Ok(FALSE)
    ELSE eq_loop(d, bsz, other_d, other_bsz, 0)

VARIABLES
    pc,       \* "start": no array constructed yet; "live": an array exists;
              \* "filled": randfill was called on it; "done": an operation
              \* was applied to it; "dead": the construction panicked
    bit_sz,   \* BitArray.bit_sz
    data,     \* BitArray.data
    ctor,     \* the constructor call that built the array
    pre,      \* the array before the last operation
    last,     \* the last call: its name, arguments and outcome
    ret,      \* the value the last call returned, under its type
    other     \* the array the last eq call compared this one with

vars == <<pc, bit_sz, data, ctor, pre, last, ret, other>>

\* a call: args are its integer arguments, val its boolean argument and
\* bits its string argument
Call(op, args, val, bits, err, build) ==
    [op |-> op, args |-> args, val |-> val, bits |-> bits, err |-> err, build |-> build]
Done(op, args, err, build) == Call(op, args, FALSE, <<>>, err, build)
\* a returned bool, usize or String
Ret(b, n, str) == [bool |-> b, num |-> n, str |-> str]
NoRet == Ret(FALSE, 0, <<>>)
Array == [bit_sz |-> bit_sz, data |-> data]

Init ==
    /\ pc = "start"
    /\ bit_sz = 0
    /\ data = <<>>
    /\ ctor = Done("none", <<>>, "none", "any")
    /\ pre = [bit_sz |-> 0, data |-> <<>>]
    /\ last = Done("none", <<>>, "none", "any")
    /\ ret = NoRet
    /\ other = [bit_sz |-> 0, data |-> <<>>]

(***************************************************************************)
(* Inputs                                                                  *)
(***************************************************************************)
\* the bytes from_u8 is called with (0b10010110 is the byte of the tests)
U8Inputs == {0, 150, 255}
\* the bytes the random generator of randfill draws
RandBytes == {45, 150}
\* '0', '1' and a character that is neither
Chars == {"0", "1", "x"}
StringsUpTo(n) == UNION {[1 .. k -> Chars] : k \in 0 .. n}
BitStringsUpTo(n) == UNION {[1 .. k -> {"0", "1"}] : k \in 0 .. n}
RotAmounts == -MaxRot .. MaxRot
\* the least offset whose double does not fit a usize
HugeOffset == IsizeMax + 1

(***************************************************************************)
(* Constructors                                                            *)
(***************************************************************************)
Construct(arr, call) ==
    /\ pc = "start"
    /\ pc' = "live"
    /\ bit_sz' = arr.bit_sz
    /\ data' = arr.data
    /\ ctor' = call
    /\ last' = call
    /\ UNCHANGED <<pre, ret, other>>

CallNew(n) == Construct(new(n), Done("new", <<n>>, "none", "any"))

CallFromU8(n) == Construct(from_u8(n), Done("from_u8", <<n>>, "none", "any"))

CallFromStr(bits) ==
    /\ pc = "start"
    /\ LET r == from_str(bits)
           call == Call("from_str", <<>>, FALSE, bits, r.err, "any")
       IN  IF r.err = "none" THEN Construct(r.val, call)
           ELSE /\ pc' = "dead"
                /\ last' = call
                /\ UNCHANGED <<bit_sz, data, ctor, pre, ret, other>>

(***************************************************************************)
(* Calls on a constructed array.  A behaviour constructs an array, may     *)
(* fill it at random, and applies one other operation to it.               *)
(***************************************************************************)
Ready == pc \in {"live", "filled"}

\* a call that leaves data as d and returns v
Step(call, d, v, next_pc) ==
    /\ Ready
    /\ pc' = next_pc
    /\ pre' = Array
    /\ data' = d
    /\ ret' = v
    /\ last' = call
    /\ UNCHANGED <<bit_sz, ctor, other>>

CallRandfill(bytes) ==
    /\ pc = "live"
    /\ Step(Done("randfill", <<>>, "none", "any"), bytes, NoRet, "filled")

CallGetBitSz ==
    Step(Done("get_bit_sz", <<>>, "none", "any"), data, Ret(FALSE, bit_sz, <<>>), "done")

CallGet(bit_index) ==
    LET r == get(data, bit_sz, bit_index)
    IN  Step(Done("get", <<bit_index>>, r.err, "any"), data, Ret(r.val, 0, <<>>), "done")

CallSet(bit_index, val) ==
    LET r == set(data, bit_sz, bit_index, val)
    IN  Step(Call("set", <<bit_index>>, val, <<>>, r.err, "any"), r.val, NoRet, "done")

CallShow ==
    LET r == show(data, bit_sz)
    IN  Step(Done("show", <<>>, r.err, "any"), data, Ret(FALSE, 0, r.val), "done")

CallRotateLeftOne(bit_offset, bit_length) ==
    LET r == rotate_left_one(data, bit_sz, bit_offset, bit_length)
    IN  Step(Done("rotate_left_one", <<bit_offset, bit_length>>, r.err, "any"),
             r.val, NoRet, "done")

CallRotateLeft(bit_offset, bit_length, bit_left_amount) ==
    LET r == rotate_left(data, bit_sz, bit_offset, bit_length, bit_left_amount)
    IN  Step(Done("rotate_left", <<bit_offset, bit_length, bit_left_amount>>, r.err, "any"),
             r.val, NoRet, "done")

\* the build profile is recorded only where the two profiles differ
CallRotate(bit_offset, bit_length, bit_right_amount, checks) ==
    LET r == rotate(data, bit_sz, bit_offset, bit_length, bit_right_amount, checks)
        alt == rotate(data, bit_sz, bit_offset, bit_length, bit_right_amount, ~checks)
        build == IF r = alt THEN "any" ELSE IF checks THEN "debug" ELSE "release"
    IN  Step(Done("rotate", <<bit_offset, bit_length, bit_right_amount>>, r.err, build),
             r.val, NoRet, "done")

Next ==
    \/ pc = "start" /\ \E n \in 0 .. MaxBits : CallNew(n)
    \/ pc = "start" /\ \E n \in U8Inputs : CallFromU8(n)
    \/ pc = "start" /\ \E bits \in StringsUpTo(MaxStrLen) : CallFromStr(bits)
    \/ pc = "live" /\ \E bytes \in [1 .. Len(data) -> RandBytes] : CallRandfill(bytes)
    \/ CallGetBitSz
    \/ Ready /\ \E i \in 0 .. bit_sz + 1 : CallGet(i)
    \/ Ready /\ \E i \in 0 .. bit_sz + 1, v \in BOOLEAN : CallSet(i, v)
    \/ CallShow
    \/ Ready /\ \E o \in 0 .. bit_sz, l \in 0 .. bit_sz + 1 :
          o + l <= bit_sz + 1 /\ CallRotateLeftOne(o, l)
    \/ Ready /\ \E o \in 0 .. bit_sz, l \in 0 .. bit_sz + 1, k \in 0 .. MaxLeft :
          o + l <= bit_sz + 1 /\ CallRotateLeft(o, l, k)
    \/ Ready /\ \E o \in 0 .. bit_sz + 1, l \in 0 .. bit_sz + 1,
                   r \in RotAmounts, checks \in BOOLEAN :
          o + l <= bit_sz + 2 /\ CallRotate(o, l, r, checks)
    \/ Ready /\ \E o \in 0 .. bit_sz + 1, l \in 0 .. bit_sz + 1, checks \in BOOLEAN :
          o + l <= bit_sz + 2 /\ CallRotate(o, l, IsizeMin, checks)
    \/ Ready /\ \E l \in 0 .. 1, r \in RotAmounts, checks \in BOOLEAN :
          CallRotate(HugeOffset, l, r, checks)

Spec == Init /\ [][Next]_vars

(***************************************************************************)
(* The text round trip: from_str on a string of '0' and '1', then show.    *)
(***************************************************************************)
NextText ==
    \/ pc = "start" /\ \E bits \in BitStringsUpTo(MaxTextLen) : CallFromStr(bits)
    \/ CallShow

SpecText == Init /\ [][NextText]_vars

(***************************************************************************)
(* modulo as a function of its own: every isize n and every usize m.       *)
(***************************************************************************)
CallModulo(n, m, checks) ==
    LET r == modulo(n, m, checks)
        build == IF r = modulo(n, m, ~checks) THEN "any"
                 ELSE IF checks THEN "debug" ELSE "release"
    IN  /\ pc = "start"
        /\ pc' = "done"
        /\ last' = Done("modulo", <<n, m>>, r.err, build)
        /\ ret' = Ret(FALSE, r.val, <<>>)
        /\ UNCHANGED <<bit_sz, data, ctor, pre, other>>

NextModulo == \E n \in Isize, m \in Usize, checks \in BOOLEAN : CallModulo(n, m, checks)

SpecModulo == Init /\ [][NextModulo]_vars

(***************************************************************************)
(* Equality: an array is constructed, may be filled at random, and is      *)
(* compared with a second array, itself constructed and possibly filled.   *)
(***************************************************************************)
\* the arrays the constructors build
Built ==
    {new(n) : n \in 0 .. MaxBits}
        \cup {from_u8(n) : n \in U8Inputs}
        \cup {from_str(bits).val : bits \in BitStringsUpTo(MaxStrLen)}
\* the arrays randfill can leave of a
Filled(a) == {[bit_sz |-> a.bit_sz, data |-> bytes] : bytes \in [1 .. Len(a.data) -> RandBytes]}
\* the arrays eq is called with
Others == Built \cup UNION {Filled(a) : a \in Built}

\* self == o; eq takes both arrays by shared reference
CallEq(o) ==
    LET r == eq(data, bit_sz, o.data, o.bit_sz)
    IN  /\ Ready
        /\ pc' = "done"
        /\ pre' = Array
        /\ other' = o
        /\ ret' = Ret(r.val, 0, <<>>)
        /\ last' = Done("eq", <<>>, r.err, "any")
        /\ UNCHANGED <<bit_sz, data, ctor>>

NextEq ==
    \/ pc = "start" /\ \E n \in 0 .. MaxBits : CallNew(n)
    \/ pc = "start" /\ \E n \in U8Inputs : CallFromU8(n)
    \/ pc = "start" /\ \E bits \in BitStringsUpTo(MaxStrLen) : CallFromStr(bits)
    \/ pc = "live" /\ \E bytes \in [1 .. Len(data) -> RandBytes] : CallRandfill(bytes)
    \/ Ready /\ \E o \in Others : CallEq(o)

SpecEq == Init /\ [][NextEq]_vars

(***************************************************************************)
(* Properties                                                              *)
(***************************************************************************)
\* the arguments of the last call
BitOffset == last.args[1]
BitLength == last.args[2]
Amount == last.args[3]
\* bit i of the array after and before the last call, as get returns it
BitNow(i) == get(data, bit_sz, i).val
BitBefore(i) == get(pre.data, pre.bit_sz, i).val
InRange == BitOffset + BitLength <= pre.bit_sz

\* C1: a rotate(offset, length, r) call on a range inside the array, with
\* length > 0, that returns leaves the bit that was at offset + j at
\* offset + ((j + r) mod length), for every j in [0, length) and every r.
C1_RotateRight ==
    (last.op = "rotate" /\ last.err = "none" /\ BitLength > 0 /\ InRange) =>
        \A j \in 0 .. BitLength - 1 :
            BitNow(BitOffset + ((j + Amount) % BitLength)) = BitBefore(BitOffset + j)

\* The same, for every right amount that can be negated (r > isize::MIN).
RotateRightNegatable ==
    (last.op = "rotate" /\ last.err = "none" /\ BitLength > 0 /\ InRange
        /\ Amount # IsizeMin) =>
        \A j \in 0 .. BitLength - 1 :
            BitNow(BitOffset + ((j + Amount) % BitLength)) = BitBefore(BitOffset + j)

\* C2: rotate returns normally on every range that lies inside the array,
\* whatever the length (0 included) and the right amount.
C2_RotateInRangeReturns ==
    (last.op = "rotate" /\ InRange) => last.err = "none"

\* C3: rotate does not return normally when its range extends past the end
\* of the array.
C3_RotatePastEndFails ==
    (last.op = "rotate" /\ ~InRange) => last.err # "none"

\* the 8-bit array holding 0b10010110
IsDocByte(a) == a = [bit_sz |-> 8, data |-> <<150>>]
DocCall == last.op = "rotate" /\ last.args = <<0, 8, -1>> /\ IsDocByte(pre)

C5_RotateFrame ==
    (last.op = "rotate" /\ InRange) =>
        /\ bit_sz = pre.bit_sz
        /\ \A i \in 0 .. bit_sz - 1 :
              (i < BitOffset \/ i >= BitOffset + BitLength) => BitNow(i) = BitBefore(i)

\* a rotation that moved bits of a range with bits of both values on both
\* sides of it, the high side in the second byte
C5_Witness ==
    /\ last.op = "rotate" /\ InRange /\ last.err = "none"
    /\ data # pre.data
    /\ BitOffset >= 2 /\ BitOffset + BitLength = 8 /\ bit_sz = 9
    /\ BitNow(0) # BitNow(1)
    /\ BitNow(8)

\* C6: after set(i, v) with i < bit_sz, get(i) returns v and get(j) returns
\* what it returned before, for every other j < bit_sz.
C6_SetGet ==
    (last.op = "set" /\ last.args[1] < pre.bit_sz) =>
        /\ last.err = "none"
        /\ get(data, bit_sz, last.args[1]) = Ok(last.val)
        /\ \A j \in 0 .. bit_sz - 1 :
              j # last.args[1] => get(data, bit_sz, j) = get(pre.data, pre.bit_sz, j)

\* a set that cleared a bit of the second byte next to bits that are set
C6_Witness ==
    /\ last.op = "set" /\ last.err = "none"
    /\ last.args = <<8>> /\ last.val = FALSE
    /\ BitBefore(8) /\ ~BitNow(8)
    /\ BitNow(7) /\ bit_sz = 9

\* C7: for a string s of '0' and '1', from_str(s) has bit_sz = len(s), its
\* bit i is the character i places from the right end of s, and show
\* returns s.
C7_TextRoundTrip ==
    (last.op = "show" /\ ctor.op = "from_str") =>
        /\ last.err = "none"
        /\ bit_sz = Len(ctor.bits)
        /\ \A i \in 0 .. bit_sz - 1 : BitNow(i) = (ctor.bits[Len(ctor.bits) - i] = "1")
        /\ ret.str = ctor.bits

\* the round trip of a string that fills more than one byte and is not its
\* own mirror image
C7_Witness ==
    /\ last.op = "show" /\ ctor.op = "from_str"
    /\ ctor.bits = <<"1", "1", "0", "1", "0", "0", "1", "0", "0">>
    /\ ret.str = ctor.bits

\* C8: for every n and every m > 0, modulo(n, m) returns a value in [0, m)
\* that differs from n by a multiple of m.
C8_ModuloCorrect ==
    (last.op = "modulo" /\ last.args[2] > 0) =>
        /\ last.err = "none"
        /\ 0 <= ret.num /\ ret.num < last.args[2]
        /\ (ret.num - last.args[1]) % last.args[2] = 0

\* The same, for the m whose double fits an isize.
ModuloCorrectSmall ==
    (last.op = "modulo" /\ last.args[2] > 0 /\ 2 * last.args[2] <= IsizeMax + 1) =>
        /\ last.err = "none"
        /\ 0 <= ret.num /\ ret.num < last.args[2]
        /\ (ret.num - last.args[1]) % last.args[2] = 0

\* C9: on a range inside the array with length > 0, rotate_left by a
\* multiple of length returns and changes nothing, and rotate by a right
\* amount that is a multiple of length changes nothing.
C9_FullPeriod ==
    /\ (last.op = "rotate_left" /\ BitLength > 0 /\ InRange /\ Amount % BitLength = 0) =>
          (last.err = "none" /\ data = pre.data)
    /\ (last.op = "rotate" /\ BitLength > 0 /\ InRange /\ Amount % BitLength = 0) =>
          data = pre.data

\* rotate_left(1, 4, 4) on 0b10010110: four single rotations, each of which
\* changes the byte
C9_Witness ==
    /\ last.op = "rotate_left" /\ last.args = <<1, 4, 4>>
    /\ IsDocByte(pre) /\ last.err = "none"
    /\ rotate_left(pre.data, pre.bit_sz, 1, 4, 1).val # pre.data
    /\ data = pre.data

\* C10: get(i) and set(i, v) with i >= bit_sz fail on their assertion, and
\* the failed set changes nothing.
C10_OutOfRange ==
    (last.op \in {"get", "set"} /\ last.args[1] >= pre.bit_sz) =>
        (last.err = "assert" /\ data = pre.data)

\* get(0) on the array of new(0), whose storage holds a byte
C10_Witness ==
    /\ last.op = "get" /\ last.args = <<0>>
    /\ ctor.op = "new" /\ pre.bit_sz = 0 /\ Len(pre.data) = 1
    /\ last.err = "assert"

\* bit i of the array eq was called with, read from its storage
OtherBit(i) == (other.data[(i \div ByteBits) + 1] \div 2^(i % ByteBits)) % 2 = 1
\* bit i of this array, read from its storage
SelfBit(i) == (data[(i \div ByteBits) + 1] \div 2^(i % ByteBits)) % 2 = 1
\* the two arrays hold the same number of bits and the same bit at every
\* index below it
SameBits ==
    /\ bit_sz = other.bit_sz
    /\ \A i \in 0 .. bit_sz - 1 : SelfBit(i) = OtherBit(i)

\* C11: a == b returns, and returns true exactly when a and b have the same
\* bit_sz and the same bit at every index below it, whatever the storage
\* bits at positions >= bit_sz and the storage lengths are; the comparison
\* changes neither array.
C11_EqLogicalBits ==
    (last.op = "eq") =>
        /\ last.err = "none"
        /\ ret.bool = SameBits
        /\ Array = pre

\* from_u8(0b10010110), one byte of storage, compared equal with a randomly
\* filled new(8), two bytes of storage of which the second is padding
C11_Witness ==
    /\ last.op = "eq" /\ ret.bool
    /\ ctor.op = "from_u8" /\ data = <<150>>
    /\ other = [bit_sz |-> 8, data |-> <<150, 45>>]

====
